---- MODULE Spec2Model ----
(***************************************************************************)
(* State-machine model of src/app.py (IBA internship portal, Streamlit +   *)
(* Firestore).  One Streamlit session is one element of Sessions; every    *)
(* user interaction triggers one run of the page script from the top.  A   *)
(* run is modelled as one action for the script top (flag read, data load, *)
(* page selection, main flow control) followed by one action per store     *)
(* call of the handler it reaches, so that the store calls of different    *)
(* sessions interleave.  Every store write may fail (raise).               *)
(***************************************************************************)
EXTENDS Integers, Sequences, FiniteSets, TLC

VARIABLES
    userDoc,        \* store: users/{uid} documents
    reviews,        \* store: reviews collection (document id = position)
    appDocs,        \* store: users/{uid}/applications subcollections
    session_state,  \* st.session_state of each session
    query_params,   \* st.query_params (the module attribute the script rebinds)
    run,            \* locals of each session's current/latest script run
    last_upvote,    \* history: the latest upvote toggle written to the store
    faults          \* number of store calls that have failed so far

vars == <<userDoc, reviews, appDocs, session_state, query_params, run, last_upvote,
          faults>>

----------------------------------------------------------------------------
\* Bounds of the model

MaxReviews == 4
MaxApps == 2
MaxAppDocs == 3
MaxFaults == 1
MaxStipendLen == 3
MaxKpiRows == 3
MaxRankLen == 6

Users == {"u1", "u2"}
Sessions == {"s1", "s2"}
Names == {"Ann"}
AppRows == {"x", "y"}

\* The accounts each browser session signs in to: s1 and s2 can be two
\* sessions of u1, or sessions of two users.
Accounts(s) == IF s = "s1" THEN {"u1"} ELSE {"u1", "u2"}

----------------------------------------------------------------------------
\* Values

None == "None"
NoDoc == [exists |-> FALSE]
NoDraft == [empty |-> TRUE]
NoReview == [id |-> 0]
NoParam == "NoParam"

PageProfile == "User Profile"
PageFeed == "Internship Feed"
PageOnboarding == "Onboarding"

UseFullName == "Use my full name"
Anonymous == "Anonymous"
PostAsOptions == {UseFullName, Anonymous}

\* What review_form / get_review_form return on a valid submission is a
\* record of the authored fields: the fifteen fields other than "Post As" are
\* carried as one value, content, and "Post As" as postAs.

\* The listed reviews whose buttons the sessions click.
FeedTargets == {1}

\* The drafts the onboarding form is submitted with.
OnboardingDrafts == [content : {"a"}, postAs : {UseFullName}]

RangeOf(seq) == {seq[i] : i \in 1..Len(seq)}

----------------------------------------------------------------------------
\* Text.  A string is the sequence of its characters.  "sup2" stands for the
\* character SUPERSCRIPT TWO: str.isdigit() is true of it, int() rejects it.

DecimalChars == {"0", "1", "2", "3", "4", "5", "6", "7", "8", "9"}
DigitChars == DecimalChars \cup {"sup2"}
Whitespace == {" "}

\* str.split(sep) for a one-character separator.
RECURSIVE Split(_, _)
Split(str, sep) ==
    IF \A i \in 1..Len(str) : str[i] # sep
    THEN <<str>>
    ELSE LET k == CHOOSE i \in 1..Len(str) :
                     str[i] = sep /\ \A j \in 1..(i - 1) : str[j] # sep
         IN <<SubSeq(str, 1, k - 1)>> \o Split(SubSeq(str, k + 1, Len(str)), sep)

\* str.strip().
RECURSIVE Strip(_)
Strip(str) ==
    IF str = <<>> THEN <<>>
    ELSE IF Head(str) \in Whitespace THEN Strip(Tail(str))
    ELSE IF str[Len(str)] \in Whitespace THEN Strip(SubSeq(str, 1, Len(str) - 1))
    ELSE str

\* str.isdigit().
isdigit(str) == str # <<>> /\ \A i \in 1..Len(str) : str[i] \in DigitChars

\* str.lower() on the characters used.
LowerChar(c) == CASE c = "A" -> "a" [] c = "B" -> "b" [] OTHER -> c

lower(str) == [i \in 1..Len(str) |-> LowerChar(str[i])]

validate_stipend(stipend) ==
    IF stipend = <<>> THEN TRUE
    ELSE LET parts == Split(stipend, "-")
         IN Len(parts) = 2 /\ \A p \in 1..Len(parts) : isdigit(Strip(parts[p]))

----------------------------------------------------------------------------
\* Email addresses and the identity provider.

endswith(str, suffix) ==
    /\ Len(suffix) <= Len(str)
    /\ SubSeq(str, Len(str) - Len(suffix) + 1, Len(str)) = suffix

allowed_domains == << <<"@", "i", "b", "a", ".", "e", "d", "u", ".", "p", "k">>,
                      <<"@", "k", "h", "i", ".", "i", "b", "a", ".", "e", "d", "u", ".", "p", "k">> >>

\* A variant that looks for the domain anywhere in the address.
is_iba_user_contains(email) ==
    \E i \in 1..Len(allowed_domains), k \in 1..Len(email) :
        /\ k + Len(allowed_domains[i]) - 1 <= Len(email)
        /\ SubSeq(email, k, k + Len(allowed_domains[i]) - 1) = allowed_domains[i]

is_iba_user(email) ==
    \E i \in 1..Len(allowed_domains) : endswith(email, allowed_domains[i])

\* The addresses typed into the forms of the login screen.
MainEmail == <<"a", "@", "i", "b", "a", ".", "e", "d", "u", ".", "p", "k">>
KhiEmail == <<"a", "@", "k", "h", "i", ".", "i", "b", "a", ".", "e", "d", "u", ".", "p", "k">>
BareDomain == <<"@", "i", "b", "a", ".", "e", "d", "u", ".", "p", "k">>
UpperEmail == <<"a", "@", "I", "B", "A", ".", "E", "D", "U", ".", "P", "K">>
OutsideEmail == <<"a", "@", "x", ".", "p", "k">>
DomainInside == <<"a", "@", "i", "b", "a", ".", "e", "d", "u", ".", "p", "k", ".", "x">>
Emails == {MainEmail, KhiEmail, BareDomain, UpperEmail, OutsideEmail, DomainInside}

\* The account the identity provider holds for an address.
ProviderUid(email) == IF email \in {KhiEmail, OutsideEmail} THEN "u2" ELSE "u1"

----------------------------------------------------------------------------
\* The dashboard figures.  An applications table is a data frame: its columns
\* and, for each row, the value of the Status column (NaN where the row has
\* none).

NaN == "NaN"
NoKpis == [total |-> -1, rejected |-> -1, in_progress |-> -1]

empty(df) == Len(df.rows) = 0 \/ df.columns = {}

calculate_kpis_open_only(applications) ==
    IF empty(applications)
    THEN [total |-> 0, rejected |-> 0, in_progress |-> 0]
    ELSE IF "Status" \notin applications.columns
    THEN [total |-> Len(applications.rows), rejected |-> 0,
          in_progress |-> Len(applications.rows)]
    ELSE LET rows == applications.rows
         IN [total |-> Len(rows),
             rejected |-> Cardinality({i \in 1..Len(rows) : rows[i] = "Rejected"}),
             in_progress |->
                 Cardinality({i \in 1..Len(rows) : rows[i] # "Rejected"})]

calculate_kpis(applications) ==
    IF empty(applications)
    THEN [total |-> 0, rejected |-> 0, in_progress |-> 0]
    ELSE IF "Status" \notin applications.columns
    THEN [total |-> Len(applications.rows), rejected |-> 0,
          in_progress |-> Len(applications.rows)]
    ELSE LET rows == applications.rows
         IN [total |-> Len(rows),
             rejected |-> Cardinality({i \in 1..Len(rows) : rows[i] = "Rejected"}),
             in_progress |->
                 Cardinality({i \in 1..Len(rows) :
                                 rows[i] \notin {"Offer Received", "Rejected"}})]

----------------------------------------------------------------------------
\* The feed's filter and ranking (lines 723-765).  A review is read through
\* its id, its upvoters and four fields of its content; Missing stands for a
\* text key the stored document does not have, None for a missing industry.

Missing == <<"Missing">>
All == <<"A", "l", "l">>
NotSpecified == <<"N", "o", "t", " ", "S", "p", "e", "c", "i", "f", "i", "e", "d">>
TopCount == 5
SliderDefaultUpper == 100000

DigitValue(c) ==
    CASE c = "0" -> 0 [] c = "1" -> 1 [] c = "2" -> 2 [] c = "3" -> 3 [] c = "4" -> 4
      [] c = "5" -> 5 [] c = "6" -> 6 [] c = "7" -> 7 [] c = "8" -> 8 [] OTHER -> 9

RECURSIVE DecValue(_)
DecValue(digits) ==
    IF digits = <<>> THEN 0
    ELSE 10 * DecValue(SubSeq(digits, 1, Len(digits) - 1))
         + DigitValue(digits[Len(digits)])

\* int(text): surrounding whitespace and a leading "+" are accepted, the rest
\* must be decimal digits; anything else raises.
int(text) ==
    LET t == Strip(text)
        body == IF t # <<>> /\ Head(t) = "+" THEN Tail(t) ELSE t
    IN IF body # <<>> /\ \A i \in 1..Len(body) : body[i] \in DecimalChars
       THEN [raised |-> FALSE, value |-> DecValue(body)]
       ELSE [raised |-> TRUE, value |-> 0]

\* Lines 746-750: the two bounds read from a review, or the exception.
StipendBounds(review) ==
    LET stipend_val == IF review.content.StipendRange = Missing
                       THEN <<"0", "-", "0">>
                       ELSE review.content.StipendRange
    IN IF stipend_val # NotSpecified /\ "-" \in RangeOf(stipend_val)
       THEN LET parts == Split(stipend_val, "-")
                lo == int(Strip(parts[1]))
                hi == int(Strip(parts[2]))
            IN [raised |-> lo.raised \/ hi.raised, min_stipend |-> lo.value,
                max_stipend |-> hi.value]
       ELSE [raised |-> FALSE, min_stipend |-> 0, max_stipend |-> 0]

GetCompany(review) ==
    IF review.content.Company = Missing THEN <<>> ELSE review.content.Company

\* A variant that compares the company names as they are written.
Matches_case_sensitive(review, c) ==
    LET b == StipendBounds(review)
    IN /\ ~b.raised
       /\ c.company = All \/ c.company = GetCompany(review)
       /\ c.industry = "All" \/ review.content.Industry = c.industry
       /\ c.program = "All" \/ review.content.program_type = c.program
       /\ b.min_stipend >= c.stipend_range[1]
       /\ b.max_stipend <= c.stipend_range[2]

\* Lines 745-762: whether the loop appends the review.
Matches(review, c) ==
    LET b == StipendBounds(review)
    IN /\ ~b.raised
       /\ c.company = All \/ lower(c.company) = lower(GetCompany(review))
       /\ c.industry = "All" \/ review.content.Industry = c.industry
       /\ c.program = "All" \/ review.content.program_type = c.program
       /\ b.min_stipend >= c.stipend_range[1]
       /\ b.max_stipend <= c.stipend_range[2]

RECURSIVE FilterReviews(_, _)
FilterReviews(rs, c) ==
    IF rs = <<>> THEN <<>>
    ELSE (IF Matches(Head(rs), c) THEN <<Head(rs)>> ELSE <<>>)
         \o FilterReviews(Tail(rs), c)

\* sorted(..., key=number of upvoters, reverse=True): a stable sort, an
\* element goes behind every element placed before it whose key is not less.
RECURSIVE InsertByUpvotes(_, _)
InsertByUpvotes(sorted, x) ==
    IF sorted = <<>> THEN <<x>>
    ELSE IF Len(Head(sorted).upvoters) >= Len(x.upvoters)
    THEN <<Head(sorted)>> \o InsertByUpvotes(Tail(sorted), x)
    ELSE <<x>> \o sorted

RECURSIVE SortedByUpvotes(_)
SortedByUpvotes(rs) ==
    IF rs = <<>> THEN <<>>
    ELSE InsertByUpvotes(SortedByUpvotes(SubSeq(rs, 1, Len(rs) - 1)), rs[Len(rs)])

\* A variant that takes the first reviews without sorting them.
TopReviews_unsorted(filtered_reviews) ==
    SubSeq(filtered_reviews, 1,
           IF Len(filtered_reviews) < TopCount THEN Len(filtered_reviews) ELSE TopCount)

\* Line 765: the "Top Reviews" list.
TopReviews(filtered_reviews) ==
    SubSeq(SortedByUpvotes(filtered_reviews), 1,
           IF Len(filtered_reviews) < TopCount THEN Len(filtered_reviews) ELSE TopCount)

\* The filter form's widgets (lines 726-731) and the values used when
\* "Search" was not pressed (lines 733-737).
DefaultFilter ==
    [company |-> All, industry |-> "All", stipend_range |-> <<0, SliderDefaultUpper>>,
     program |-> "All"]
NoSearchFilter ==
    [company |-> All, industry |-> "All", stipend_range |-> <<0, 150000>>,
     program |-> "All"]

----------------------------------------------------------------------------
\* The review forms.  A form is the content of its widgets; the widgets that
\* no rule reads and no other part of the model uses are left out.

Other == <<"O", "t", "h", "e", "r">>
Unilever == <<"U", "n", "i", "l", "e", "v", "e", "r">>

\* A form nobody has typed in: the widgets' default values.
BlankForm ==
    [ company |-> Unilever,
      custom_company |-> <<>>,
      interview_questions |-> <<>>,
      mode_interview |-> <<>>,
      assessments |-> <<>>,
      stipend |-> <<>>,
      post_option |-> UseFullName ]

\* The widgets of a session: the onboarding form of each step (keyed by the
\* step) and the feed's review form.
BlankWidgets ==
    [onboarding |-> <<BlankForm, BlankForm>>, feed |-> BlankForm,
     filter |-> DefaultFilter]

\* A fail-fast variant of the validation: only the first violated rule is
\* reported.
ValidationErrors_first(form) ==
    IF form.company = Other /\ form.custom_company = <<>>
    THEN <<"Company name required">>
    ELSE IF Strip(form.interview_questions) = <<>>
    THEN <<"Interview Questions field is required">>
    ELSE IF form.mode_interview = <<>>
    THEN <<"At least one Mode of Interview must be selected">>
    ELSE IF Strip(form.assessments) = <<>>
    THEN <<"Gamified Assessment feedback is required">>
    ELSE IF form.stipend # <<>> /\ ~validate_stipend(form.stipend)
    THEN <<"Invalid stipend format (use 'min-max')">>
    ELSE <<>>

\* errors, as review_form and get_review_form build it.
ValidationErrors(form) ==
    (IF form.company = Other /\ form.custom_company = <<>>
     THEN <<"Company name required">> ELSE <<>>)
    \o (IF Strip(form.interview_questions) = <<>>
        THEN <<"Interview Questions field is required">> ELSE <<>>)
    \o (IF form.mode_interview = <<>>
        THEN <<"At least one Mode of Interview must be selected">> ELSE <<>>)
    \o (IF Strip(form.assessments) = <<>>
        THEN <<"Gamified Assessment feedback is required">> ELSE <<>>)
    \o (IF form.stipend # <<>> /\ ~validate_stipend(form.stipend)
        THEN <<"Invalid stipend format (use 'min-max')">> ELSE <<>>)

\* The dictionary a valid submission returns.
FormDraft(form) ==
    [ content |-> [ Company |-> IF form.company = Other THEN form.custom_company
                                ELSE form.company,
                    Assessments |-> form.assessments,
                    ModeOfInterview |-> form.mode_interview,
                    InterviewQuestions |-> form.interview_questions,
                    StipendRange |-> form.stipend ],
      postAs |-> form.post_option ]

\* get_review_form on "Submit Review": the errors shown and the value returned.
get_review_form(form) ==
    LET errors == ValidationErrors(form)
    IN IF errors = <<>> THEN [errors |-> <<>>, draft |-> FormDraft(form)]
       ELSE [errors |-> errors, draft |-> NoDraft]

\* review_form on "Submit Review": the errors shown and the value returned.
review_form(form) ==
    LET errors == ValidationErrors(form)
    IN IF errors # <<>> THEN [errors |-> errors, draft |-> NoDraft]
       ELSE [errors |-> <<>>, draft |-> FormDraft(form)]

----------------------------------------------------------------------------
\* Session state initialisation

InitSession ==
    [ firebase_user |-> None,
      applications |-> <<>>,
      reviews |-> <<>>,
      show_form |-> FALSE,
      review_to_edit |-> NoReview,
      data_loaded |-> FALSE,
      page |-> PageProfile,
      current_review_step |-> 0,
      review_data |-> <<NoDraft, NoDraft>>,
      reviews_submitted |-> 0,
      user_profile |-> None,
      profile_saved |-> FALSE,
      show_forgot |-> FALSE,
      widgets |-> BlankWidgets ]

\* pc is the position of the run (idle: the run has ended and its page is
\* shown), screen the renderer main flow control called, handler the handler
\* the run entered, error/success whether st.error/st.success was called.
\* attempt is a history field: the ids of the review documents the session's
\* latest onboarding completion has added.
InitRun ==
    [ pc |-> "idle",
      screen |-> "Login",
      profile_completed |-> FALSE,
      onboarding_complete |-> FALSE,
      handler |-> "none",
      error |-> FALSE,
      success |-> FALSE,
      pending_name |-> None,
      pending_draft |-> NoDraft,
      errors |-> <<>>,
      provider_call |-> None,
      kpis |-> NoKpis,
      criteria |-> DefaultFilter,
      filtered |-> <<>>,
      top |-> <<>>,
      email |-> <<>>,
      pending_id |-> 0,
      pending_field |-> None,
      apps_pending |-> <<>>,
      apps_next |-> 0,
      attempt |-> {} ]

----------------------------------------------------------------------------
\* Store reads

\* user_doc.get(): the two flags default to False when the document or the
\* field is absent.
ReadFlags(u) ==
    IF userDoc[u].exists
    THEN [profile_completed |-> userDoc[u].profile_completed,
          onboarding_complete |-> userDoc[u].onboarding_complete]
    ELSE [profile_completed |-> FALSE, onboarding_complete |-> FALSE]

\* reviews_ref.stream(): every review document with its id.
StreamReviews == [i \in 1..Len(reviews) |-> reviews[i]]

\* apps_ref.stream(): the application documents of u that exist, with their
\* ids.  appDocs[u] keeps every document ever added at the position that is
\* its id, marked deleted once it is deleted.
StreamApps(u) ==
    SelectSeq([i \in 1..Len(appDocs[u]) |->
                  [id |-> i, row |-> appDocs[u][i].row,
                   deleted |-> appDocs[u][i].deleted]],
              LAMBDA d : ~d.deleted)

\* [doc.to_dict() for doc in ...]: the rows, document ids dropped.
RowsOf(docs) == [i \in 1..Len(docs) |-> docs[i].row]

\* load_data: the three reads in order inside one try; a failure leaves what
\* was not yet assigned as it was and reports an error.
LoadOutcomes == {"ok", "fail_apps", "fail_reviews"}

load_data(ss, outcome) ==
    CASE outcome = "ok" ->
            [ss EXCEPT !.applications = RowsOf(StreamApps(ss.firebase_user)),
                       !.reviews = StreamReviews]
      [] outcome = "fail_reviews" ->
            [ss EXCEPT !.applications = RowsOf(StreamApps(ss.firebase_user))]
      [] OTHER -> ss

----------------------------------------------------------------------------
\* Page selection and main flow control

\* query_params["page"][0]: the first character of the parameter's value.
FirstChar(v) ==
    CASE v = PageProfile -> "(bust glyph)"
      [] v = PageFeed -> "(newspaper glyph)"
      [] v = PageOnboarding -> "O"
      [] OTHER -> v

\* Variant: the onboarding page is forced for every completed profile.
PageSelection_ignores_flag(show_form, profile_completed, onboarding_complete, page) ==
    IF show_form THEN PageFeed
    ELSE IF profile_completed THEN PageOnboarding
    ELSE page

\* Variant: a pending form does not force the feed page.
PageSelection_ignores_form(show_form, profile_completed, onboarding_complete, page) ==
    IF profile_completed /\ ~onboarding_complete THEN PageOnboarding
    ELSE page

\* Lines 608-613: the value st.session_state.page gets in this run.
PageSelection(show_form, profile_completed, onboarding_complete, page) ==
    IF show_form THEN PageFeed
    ELSE IF profile_completed /\ ~onboarding_complete THEN PageOnboarding
    ELSE page

\* Lines 815-825: which renderer the run calls.
MainFlow(profile_completed, onboarding_complete, page) ==
    IF ~profile_completed THEN "ProfileForm"
    ELSE IF ~onboarding_complete \/ page = PageOnboarding THEN "Onboarding"
    ELSE IF page = PageProfile THEN "UserProfile"
    ELSE "Feed"

\* The script from its first line to the renderer call, for session s: sel is
\* the option the sidebar radio returns, lo the outcome of load_data if it is
\* called.  Returns the session state and the run locals at the renderer.
script_top(s, sel, lo) ==
    LET ss0 == session_state[s]
        ss1 == IF query_params # NoParam
               THEN [ss0 EXCEPT !.page = FirstChar(query_params)]
               ELSE ss0
        u == ss1.firebase_user
        rn0 == [InitRun EXCEPT !.attempt = run[s].attempt]
    IN  IF u = None
        THEN [ss |-> ss1, rn |-> rn0]
        ELSE
          LET flags == ReadFlags(u)
              ss2 == IF ~ss1.data_loaded
                     THEN [load_data(ss1, lo) EXCEPT !.data_loaded = TRUE]
                     ELSE ss1
              page == PageSelection(ss2.show_form, flags.profile_completed,
                                    flags.onboarding_complete, sel)
          IN [ss |-> [ss2 EXCEPT !.page = page],
              rn |-> [rn0 EXCEPT
                        !.screen = MainFlow(flags.profile_completed,
                                            flags.onboarding_complete, page),
                        !.profile_completed = flags.profile_completed,
                        !.onboarding_complete = flags.onboarding_complete,
                        !.error = (~ss1.data_loaded /\ lo # "ok")]]

SidebarOptions == {PageProfile, PageFeed}

\* The load outcomes that matter in a run of session s.
TopLoad(s) ==
    IF session_state[s].data_loaded \/ session_state[s].firebase_user = None
    THEN {"ok"}
    ELSE LoadOutcomes

UserOf(s) == session_state[s].firebase_user

\* History of upvote toggles: who wrote the latest one, on which review, and
\* the stored upvoters before it.  Forgotten when another identity writes to
\* the reviews collection.
NoToggle == [user |-> None, id |-> 0, before |-> <<>>]

HistAfterWrite(u, rs) ==
    IF rs # reviews /\ last_upvote.user # u THEN NoToggle ELSE last_upvote

\* A store call raises or not; at most MaxFaults calls raise in a behaviour.
Fault(failed) ==
    /\ failed => faults < MaxFaults
    /\ faults' = IF failed THEN faults + 1 ELSE faults

Commit(s, ss, rn) ==
    /\ session_state' = [session_state EXCEPT ![s] = ss]
    /\ run' = [run EXCEPT ![s] = rn]

Idle(s) == run[s].pc = "idle"

----------------------------------------------------------------------------
\* Authentication interface

\* Login form submitted with an allowed email and valid credentials.
SignIn(s, u) ==
    /\ Idle(s)
    /\ run[s].screen = "Login"
    /\ session_state[s].firebase_user = None
    /\ LET b == script_top(s, PageProfile, "ok")
       IN /\ session_state' = [session_state EXCEPT ![s] =
                                   [b.ss EXCEPT !.firebase_user = u]]
          /\ query_params' = b.ss.page
          /\ run' = [run EXCEPT ![s] = b.rn]
    /\ UNCHANGED <<userDoc, reviews, appDocs, last_upvote, faults>>

\* Any interaction that triggers no handler (a sidebar click, a form submitted
\* with validation errors, "Continue to Profile"), and the run that st.rerun()
\* starts.
Rerun(s) ==
    /\ run[s].pc \in {"idle", "rerun"}
    /\ \E sel \in SidebarOptions, lo \in TopLoad(s) :
         LET b == script_top(s, sel, lo)
         IN Commit(s, b.ss, b.rn) /\ Fault(lo # "ok")
    /\ UNCHANGED <<userDoc, reviews, appDocs, query_params, last_upvote>>

\* The login form (lines 99-113): the identity provider is asked only for an
\* address is_iba_user accepts; ok says whether it accepts the credentials.
login_form_submit(s, email, ok) ==
    /\ Idle(s)
    /\ run[s].screen = "Login"
    /\ session_state[s].firebase_user = None
    /\ LET b == script_top(s, PageProfile, "ok")
           rn == [b.rn EXCEPT !.handler = "login_form", !.email = email]
       IN IF ~is_iba_user(email)
          THEN /\ ok
               /\ Commit(s, b.ss, [rn EXCEPT !.error = TRUE])
               /\ UNCHANGED query_params
          ELSE IF ok
          THEN /\ Commit(s, [b.ss EXCEPT !.firebase_user = ProviderUid(email)],
                         [rn EXCEPT !.provider_call = "signInWithPassword"])
               /\ query_params' = b.ss.page
          ELSE /\ Commit(s, b.ss, [rn EXCEPT !.provider_call = "signInWithPassword",
                                             !.error = TRUE])
               /\ UNCHANGED query_params
    /\ UNCHANGED <<userDoc, reviews, appDocs, last_upvote, faults>>

\* "Forgot Password?" (lines 114-115).
forgot_button(s) ==
    /\ Idle(s)
    /\ run[s].screen = "Login"
    /\ session_state[s].firebase_user = None
    /\ LET b == script_top(s, PageProfile, "ok")
       IN Commit(s, [b.ss EXCEPT !.show_forgot = TRUE],
                 [b.rn EXCEPT !.handler = "forgot_button"])
    /\ UNCHANGED <<userDoc, reviews, appDocs, query_params, last_upvote, faults>>

\* The password reset form (lines 117-129).
forgot_form_submit(s, email, ok) ==
    /\ Idle(s)
    /\ run[s].screen = "Login"
    /\ session_state[s].firebase_user = None
    /\ session_state[s].show_forgot
    /\ LET b == script_top(s, PageProfile, "ok")
           rn == [b.rn EXCEPT !.handler = "forgot_form", !.email = email]
       IN IF ~is_iba_user(email)
          THEN ok /\ Commit(s, b.ss, [rn EXCEPT !.error = TRUE])
          ELSE IF ok
          THEN Commit(s, [b.ss EXCEPT !.show_forgot = FALSE],
                      [rn EXCEPT !.provider_call = "sendOobCode", !.success = TRUE])
          ELSE Commit(s, b.ss, [rn EXCEPT !.provider_call = "sendOobCode",
                                          !.error = TRUE])
    /\ UNCHANGED <<userDoc, reviews, appDocs, query_params, last_upvote, faults>>

\* The registration form (lines 131-147).
register_form_submit(s, email, ok) ==
    /\ Idle(s)
    /\ run[s].screen = "Login"
    /\ session_state[s].firebase_user = None
    /\ LET b == script_top(s, PageProfile, "ok")
           rn == [b.rn EXCEPT !.handler = "register_form", !.email = email]
       IN IF is_iba_user(email)
          THEN IF ok
               THEN Commit(s, b.ss, [rn EXCEPT !.provider_call = "create_user",
                                               !.success = TRUE])
               ELSE Commit(s, b.ss, [rn EXCEPT !.provider_call = "create_user",
                                               !.error = TRUE])
          ELSE ok /\ Commit(s, b.ss, [rn EXCEPT !.error = TRUE])
    /\ UNCHANGED <<userDoc, reviews, appDocs, query_params, last_upvote, faults>>

\* Sidebar "Logout": reached only when the run gets past main flow control.
Logout(s) ==
    /\ Idle(s)
    /\ run[s].screen \in {"UserProfile", "Feed"}
    /\ \E sel \in SidebarOptions :
         LET b == script_top(s, sel, "ok")
         IN IF b.rn.screen \in {"UserProfile", "Feed"}
            THEN /\ Commit(s, InitSession, [InitRun EXCEPT !.attempt = run[s].attempt])
                 /\ query_params' = NoParam
            ELSE /\ Commit(s, b.ss, b.rn)
                 /\ UNCHANGED query_params
    /\ UNCHANGED <<userDoc, reviews, appDocs, last_upvote, faults>>

----------------------------------------------------------------------------
\* Profile completion

\* "Save Profile" submitted: the run up to the store call.
complete_profile_submit(s, full_name, program_ok) ==
    /\ Idle(s)
    /\ run[s].screen = "ProfileForm"
    /\ \E sel \in SidebarOptions :
         LET b == script_top(s, sel, "ok")
         IN IF b.rn.screen # "ProfileForm"
            THEN Commit(s, b.ss, b.rn)
            ELSE IF ~program_ok
            THEN Commit(s, b.ss, [b.rn EXCEPT !.error = TRUE])
            ELSE Commit(s, b.ss, [b.rn EXCEPT !.pc = "profile_set",
                                              !.handler = "complete_profile",
                                              !.pending_name = full_name])
    /\ UNCHANGED <<userDoc, reviews, appDocs, query_params, last_upvote, faults>>

\* user_ref.set(profile_data, merge=True) and what follows it.
complete_profile_set(s, ok) ==
    /\ run[s].pc = "profile_set"
    /\ LET u == session_state[s].firebase_user
           profile_data == [exists |-> TRUE,
                            full_name |-> run[s].pending_name,
                            profile_completed |-> TRUE,
                            onboarding_complete |-> FALSE]
       IN IF ok
          THEN /\ userDoc' = [userDoc EXCEPT ![u] = profile_data]
               /\ session_state' = [session_state EXCEPT
                      ![s].user_profile = profile_data.full_name,
                      ![s].profile_saved = TRUE]
               /\ run' = [run EXCEPT ![s].pc = "idle", ![s].success = TRUE,
                                     ![s].pending_name = None]
          ELSE /\ run' = [run EXCEPT ![s].pc = "idle", ![s].error = TRUE,
                                     ![s].pending_name = None]
               /\ UNCHANGED <<userDoc, session_state>>
    /\ UNCHANGED <<reviews, appDocs, query_params, last_upvote>>
    /\ Fault(~ok)

\* "Next" under the profile form, rendered once profile_saved is set.
complete_profile_next(s) ==
    /\ Idle(s)
    /\ run[s].screen = "ProfileForm"
    /\ session_state[s].profile_saved
    /\ \E sel \in SidebarOptions :
         LET b == script_top(s, sel, "ok")
         IN IF b.rn.screen = "ProfileForm"
            THEN Commit(s, [b.ss EXCEPT !.page = PageOnboarding], b.rn)
            ELSE Commit(s, b.ss, b.rn)
    /\ UNCHANGED <<userDoc, reviews, appDocs, query_params, last_upvote, faults>>

----------------------------------------------------------------------------
\* Onboarding process

\* reviewer_name of a new review.
ReviewerName(user_profile, postAs) ==
    IF postAs = UseFullName
    THEN (IF user_profile = None THEN Anonymous ELSE user_profile)
    ELSE Anonymous

\* The document onboarding_process adds for a draft: no upvoters/bookmarkers
\* fields, which every reader takes as empty lists.
OnboardingReview(ss, data, now) ==
    [ user_id |-> ss.firebase_user,
      reviewer_name |-> ReviewerName(ss.user_profile, data.postAs),
      timestamp |-> now,
      content |-> data.content,
      postAs |-> data.postAs,
      upvoters |-> <<>>,
      bookmarkers |-> <<>> ]

WithId(doc, i) ==
    [ id |-> i, user_id |-> doc.user_id, reviewer_name |-> doc.reviewer_name,
      timestamp |-> doc.timestamp, content |-> doc.content, postAs |-> doc.postAs,
      upvoters |-> doc.upvoters, bookmarkers |-> doc.bookmarkers ]

\* "Submit Review" of the onboarding form with a valid draft: the run up to
\* the first store call.
onboarding_process_submit(s, review_data) ==
    /\ Idle(s)
    /\ run[s].screen = "Onboarding"
    /\ \E sel \in SidebarOptions :
         LET b == script_top(s, sel, "ok")
             current_step == b.ss.current_review_step
             ss1 == [b.ss EXCEPT !.review_data[current_step + 1] = review_data]
         IN IF b.rn.screen # "Onboarding"
            THEN Commit(s, b.ss, b.rn)
            ELSE IF current_step = 1
            THEN Commit(s, ss1, [b.rn EXCEPT !.pc = "onb_add0",
                                             !.handler = "onboarding_step1",
                                             !.attempt = {}])
            ELSE Commit(s, [ss1 EXCEPT !.current_review_step = @ + 1],
                        [b.rn EXCEPT !.handler = "onboarding_step0"])
    /\ UNCHANGED <<userDoc, reviews, appDocs, query_params, last_upvote, faults>>

\* "Submit Review" of the onboarding form as typed: get_review_form shows the
\* errors and returns nothing, or returns the draft onboarding_process goes on
\* with.
get_review_form_submit(s) ==
    LET step == session_state[s].current_review_step
        r == get_review_form(session_state[s].widgets.onboarding[step + 1])
    IN IF r.errors = <<>>
       THEN onboarding_process_submit(s, r.draft)
       ELSE /\ Idle(s)
            /\ run[s].screen = "Onboarding"
            /\ \E sel \in SidebarOptions :
                 LET b == script_top(s, sel, "ok")
                 IN IF b.rn.screen # "Onboarding"
                    THEN Commit(s, b.ss, b.rn)
                    ELSE Commit(s, b.ss, [b.rn EXCEPT !.errors = r.errors,
                                                      !.error = TRUE,
                                                      !.handler = "get_review_form"])
            /\ UNCHANGED <<userDoc, reviews, appDocs, query_params, last_upvote,
                           faults>>

\* Variant: a failed add is reported and the completion goes on.
onboarding_process_add_continues(s, i, ok) ==
    /\ run[s].pc = (IF i = 0 THEN "onb_add0" ELSE "onb_add1")
    /\ ok => Len(reviews) < MaxReviews
    /\ LET ss == session_state[s]
           data == ss.review_data[i + 1]
       IN IF ok /\ data # NoDraft
          THEN /\ reviews' = Append(reviews,
                                WithId(OnboardingReview(ss, data, Len(reviews) + 1),
                                       Len(reviews) + 1))
               /\ run' = [run EXCEPT
                            ![s].pc = (IF i = 0 THEN "onb_add1" ELSE "onb_load"),
                            ![s].attempt = @ \cup {Len(reviews) + 1}]
          ELSE /\ run' = [run EXCEPT
                            ![s].pc = (IF i = 0 THEN "onb_add1" ELSE "onb_load"),
                            ![s].error = TRUE]
               /\ UNCHANGED reviews
    /\ UNCHANGED <<userDoc, appDocs, session_state, query_params>>
    /\ last_upvote' = HistAfterWrite(UserOf(s), reviews')
    /\ Fault(~ok)

\* db.collection("reviews").add(review) for draft i (0 or 1).
onboarding_process_add(s, i, ok) ==
    /\ run[s].pc = (IF i = 0 THEN "onb_add0" ELSE "onb_add1")
    /\ ok => Len(reviews) < MaxReviews
    /\ LET ss == session_state[s]
           data == ss.review_data[i + 1]
       IN IF ok /\ data # NoDraft
          THEN /\ reviews' = Append(reviews,
                                WithId(OnboardingReview(ss, data, Len(reviews) + 1),
                                       Len(reviews) + 1))
               /\ run' = [run EXCEPT
                            ![s].pc = (IF i = 0 THEN "onb_add1" ELSE "onb_load"),
                            ![s].attempt = @ \cup {Len(reviews) + 1}]
          ELSE /\ run' = [run EXCEPT ![s].pc = "idle", ![s].error = TRUE]
               /\ UNCHANGED reviews
    /\ UNCHANGED <<userDoc, appDocs, session_state, query_params>>
    /\ last_upvote' = HistAfterWrite(UserOf(s), reviews')
    /\ Fault(~ok)

\* load_data() between the second add and the flag update.
onboarding_process_load(s, lo) ==
    /\ run[s].pc = "onb_load"
    /\ session_state' = [session_state EXCEPT ![s] = load_data(@, lo)]
    /\ run' = [run EXCEPT ![s].pc = "onb_flag",
                          ![s].error = (lo # "ok")]
    /\ UNCHANGED <<userDoc, reviews, appDocs, query_params, last_upvote>>
    /\ Fault(lo # "ok")

\* users/{uid}.update({"onboarding_complete": True}) and what follows it.
onboarding_process_flag(s, ok) ==
    /\ run[s].pc = "onb_flag"
    /\ LET u == session_state[s].firebase_user
       IN IF ok /\ userDoc[u].exists
          THEN /\ userDoc' = [userDoc EXCEPT ![u].onboarding_complete = TRUE]
               /\ session_state' = [session_state EXCEPT
                      ![s].reviews_submitted = 2,
                      ![s].page = PageProfile]
               /\ run' = [run EXCEPT ![s].pc = "idle", ![s].success = TRUE]
          ELSE /\ run' = [run EXCEPT ![s].pc = "idle", ![s].error = TRUE]
               /\ UNCHANGED <<userDoc, session_state>>
    /\ UNCHANGED <<reviews, appDocs, query_params, last_upvote>>
    /\ Fault(~ok)

\* A variant of "Previous" that forgets the first draft when it goes back.
onboarding_process_previous_drops_draft(s) ==
    /\ Idle(s)
    /\ run[s].screen = "Onboarding"
    /\ session_state[s].current_review_step > 0
    /\ \E sel \in SidebarOptions :
         LET b == script_top(s, sel, "ok")
         IN IF b.rn.screen = "Onboarding" /\ b.ss.current_review_step > 0
            THEN Commit(s, [b.ss EXCEPT !.current_review_step = @ - 1,
                                        !.review_data[1] = NoDraft], b.rn)
            ELSE Commit(s, b.ss, b.rn)
    /\ UNCHANGED <<userDoc, reviews, appDocs, query_params, last_upvote, faults>>

\* "Previous", rendered only when the cursor is past the first form.
onboarding_process_previous(s) ==
    /\ Idle(s)
    /\ run[s].screen = "Onboarding"
    /\ session_state[s].current_review_step > 0
    /\ \E sel \in SidebarOptions :
         LET b == script_top(s, sel, "ok")
         IN IF b.rn.screen = "Onboarding" /\ b.ss.current_review_step > 0
            THEN Commit(s, [b.ss EXCEPT !.current_review_step = @ - 1], b.rn)
            ELSE Commit(s, b.ss, b.rn)
    /\ UNCHANGED <<userDoc, reviews, appDocs, query_params, last_upvote, faults>>


----------------------------------------------------------------------------
\* Reviews: save_review and the store's array transforms

\* Variant: a plain append.
ArrayUnion_appends(arr, u) == Append(arr, u)

\* firestore.ArrayUnion([u]): appends u unless the array holds it.
ArrayUnion(arr, u) == IF u \in RangeOf(arr) THEN arr ELSE Append(arr, u)

\* firestore.ArrayRemove([u]): drops every occurrence of u.
ArrayRemove(arr, u) == SelectSeq(arr, LAMBDA x : x # u)

\* The document save_review adds for a new review.
NewReview(ss, review_data, now) ==
    [ user_id |-> ss.firebase_user,
      reviewer_name |-> ReviewerName(ss.user_profile, review_data.postAs),
      timestamp |-> now,
      content |-> review_data.content,
      postAs |-> review_data.postAs,
      upvoters |-> <<>>,
      bookmarkers |-> <<>> ]

\* Variant: the edit writes a whole document with empty social state.
UpdateReview_resets(doc, review_data) ==
    [doc EXCEPT !.content = review_data.content, !.postAs = review_data.postAs,
                !.upvoters = <<>>, !.bookmarkers = <<>>]

\* reviews_ref.document(id).update(review_data): the fields of the form's
\* dictionary replace the stored ones, the other fields stay.
UpdateReview(doc, review_data) ==
    [doc EXCEPT !.content = review_data.content, !.postAs = review_data.postAs]

\* The reviews the feed lists with upvote and bookmark buttons.
ShownReviews(ss) == 1..Len(ss.reviews)

----------------------------------------------------------------------------
\* User profile page: "Edit" next to one of the user's cached reviews

user_profile_edit(s, i) ==
    /\ Idle(s)
    /\ run[s].screen = "UserProfile"
    /\ i \in 1..Len(session_state[s].reviews)
    /\ session_state[s].reviews[i].user_id = session_state[s].firebase_user
    /\ \E sel \in SidebarOptions :
         LET b == script_top(s, sel, "ok")
         IN IF b.rn.screen = "UserProfile"
            THEN Commit(s, [b.ss EXCEPT !.review_to_edit = b.ss.reviews[i],
                                        !.show_form = TRUE,
                                        !.page = PageFeed],
                        [b.rn EXCEPT !.pc = "rerun"])
            ELSE Commit(s, b.ss, b.rn)
    /\ UNCHANGED <<userDoc, reviews, appDocs, query_params, last_upvote, faults>>

----------------------------------------------------------------------------
\* User profile page: the applications tracker and save_applications

\* Where the run goes when save_applications returns: "Add Application" calls
\* st.rerun(), the data editor lets the run end.
SaveReturns(s) == IF run[s].handler = "add_application" THEN "rerun" ELSE "idle"

\* "Add Application" submitted: the row is appended to the session's table and
\* save_applications starts.
user_profile_add_application(s, row) ==
    /\ Idle(s)
    /\ run[s].screen = "UserProfile"
    /\ Len(session_state[s].applications) < MaxApps
    /\ \E sel \in SidebarOptions :
         LET b == script_top(s, sel, "ok")
         IN IF b.rn.screen = "UserProfile"
            THEN Commit(s, [b.ss EXCEPT !.applications = Append(@, row)],
                        [b.rn EXCEPT !.pc = "apps_stream",
                                     !.handler = "add_application"])
            ELSE Commit(s, b.ss, b.rn)
    /\ UNCHANGED <<userDoc, reviews, appDocs, query_params, last_upvote, faults>>

RemoveAt(seq, k) == [i \in 1..(Len(seq) - 1) |-> IF i < k THEN seq[i] ELSE seq[i + 1]]

\* The edits made in the data editor: one row of the table deleted.
DataEdits(table) == {RemoveAt(table, k) : k \in 1..Len(table)}

\* The data editor returns a table that differs from the session's: the
\* session's table is replaced and save_applications starts.
user_profile_data_editor(s, edited_df) ==
    /\ Idle(s)
    /\ run[s].screen = "UserProfile"
    /\ edited_df \in DataEdits(session_state[s].applications)
    /\ edited_df # session_state[s].applications
    /\ \E sel \in SidebarOptions :
         LET b == script_top(s, sel, "ok")
         IN IF b.rn.screen = "UserProfile"
            THEN Commit(s, [b.ss EXCEPT !.applications = edited_df],
                        [b.rn EXCEPT !.pc = "apps_stream",
                                     !.handler = "data_editor"])
            ELSE Commit(s, b.ss, b.rn)
    /\ UNCHANGED <<userDoc, reviews, appDocs, query_params, last_upvote, faults>>

\* The position of save_applications once no document is left to delete.
AfterDeletes(s) ==
    IF Len(session_state[s].applications) = 0 THEN SaveReturns(s) ELSE "apps_add"

\* apps_ref.stream(): the documents the delete loop will visit.
save_applications_stream(s, ok) ==
    /\ run[s].pc = "apps_stream"
    /\ LET docs == StreamApps(UserOf(s))
           ids == [i \in 1..Len(docs) |-> docs[i].id]
       IN IF ok
          THEN run' = [run EXCEPT
                         ![s].apps_pending = ids,
                         ![s].apps_next = 1,
                         ![s].pc = IF ids = <<>> THEN AfterDeletes(s)
                                   ELSE "apps_delete"]
          ELSE run' = [run EXCEPT ![s].pc = SaveReturns(s), ![s].error = TRUE]
    /\ UNCHANGED <<userDoc, reviews, appDocs, session_state, query_params,
                   last_upvote>>
    /\ Fault(~ok)

\* doc.reference.delete() for the next streamed document.
save_applications_delete(s, ok) ==
    /\ run[s].pc = "apps_delete"
    /\ LET u == UserOf(s)
           id == Head(run[s].apps_pending)
           rest == Tail(run[s].apps_pending)
       IN IF ok
          THEN /\ appDocs' = [appDocs EXCEPT ![u][id].deleted = TRUE]
               /\ run' = [run EXCEPT
                            ![s].apps_pending = rest,
                            ![s].pc = IF rest = <<>> THEN AfterDeletes(s)
                                      ELSE "apps_delete"]
          ELSE /\ run' = [run EXCEPT ![s].pc = SaveReturns(s), ![s].error = TRUE,
                                     ![s].apps_pending = <<>>]
               /\ UNCHANGED appDocs
    /\ UNCHANGED <<userDoc, reviews, session_state, query_params, last_upvote>>
    /\ Fault(~ok)

\* apps_ref.add(row_dict) for the next row of the session's table.
save_applications_add(s, ok) ==
    /\ run[s].pc = "apps_add"
    /\ LET u == UserOf(s)
           k == run[s].apps_next
           rows == session_state[s].applications
       IN /\ ok => Len(appDocs[u]) < MaxAppDocs
          /\ IF ok
             THEN /\ appDocs' = [appDocs EXCEPT ![u] =
                                    Append(@, [row |-> rows[k], deleted |-> FALSE])]
                  /\ run' = [run EXCEPT
                               ![s].apps_next = k + 1,
                               ![s].pc = IF k = Len(rows) THEN SaveReturns(s)
                                         ELSE "apps_add"]
             ELSE /\ run' = [run EXCEPT ![s].pc = SaveReturns(s),
                                        ![s].error = TRUE]
                  /\ UNCHANGED appDocs
    /\ UNCHANGED <<userDoc, reviews, session_state, query_params, last_upvote>>
    /\ Fault(~ok)

----------------------------------------------------------------------------
\* Internship feed page

\* "Add Review".
internship_feed_add(s) ==
    /\ Idle(s)
    /\ run[s].screen = "Feed"
    /\ \E sel \in SidebarOptions :
         LET b == script_top(s, sel, "ok")
         IN IF b.rn.screen = "Feed"
            THEN Commit(s, [b.ss EXCEPT !.show_form = TRUE,
                                        !.review_to_edit = NoReview],
                        [b.rn EXCEPT !.pc = "rerun"])
            ELSE Commit(s, b.ss, b.rn)
    /\ UNCHANGED <<userDoc, reviews, appDocs, query_params, last_upvote, faults>>

\* clear_on_submit: the widgets of the feed's form return to their defaults
\* once a submission has been processed.
Cleared(ss) == [ss EXCEPT !.widgets.feed = BlankForm]

\* What the form handler does after save_review returns, whether or not
\* save_review caught an exception.
AfterSaveReview(ss) ==
    [ss EXCEPT !.show_form = FALSE, !.review_to_edit = NoReview]

\* The review form submitted with a valid draft: the run up to and including
\* save_review's store write (update of the edited document, or add).
internship_feed_submit(s, review_data, ok) ==
    /\ Idle(s)
    /\ run[s].screen = "Feed"
    /\ session_state[s].show_form
    /\ \E sel \in SidebarOptions :
         LET b == script_top(s, sel, "ok")
             edit == b.ss.review_to_edit # NoReview
             doc_id == b.ss.review_to_edit.id
         IN IF b.rn.screen # "Feed"
            THEN Commit(s, b.ss, b.rn) /\ UNCHANGED reviews
            ELSE IF ~ok
            THEN /\ Commit(s, AfterSaveReview(Cleared(b.ss)),
                           [b.rn EXCEPT !.pc = "rerun", !.error = TRUE,
                                        !.handler = "save_review",
                                        !.success = TRUE])
                 /\ UNCHANGED reviews
            ELSE /\ ~edit => Len(reviews) < MaxReviews
                 /\ reviews' =
                      IF edit
                      THEN [reviews EXCEPT ![doc_id] = UpdateReview(@, review_data)]
                      ELSE Append(reviews,
                                  WithId(NewReview(b.ss, review_data, Len(reviews) + 1),
                                         Len(reviews) + 1))
                 /\ Commit(s, Cleared(b.ss), [b.rn EXCEPT !.pc = "save_load",
                                                  !.handler = "save_review",
                                                  !.pending_draft = review_data])
    /\ last_upvote' = HistAfterWrite(UserOf(s), reviews')
    /\ UNCHANGED <<userDoc, appDocs, query_params>>
    /\ Fault(~ok)

\* load_data() at the end of save_review, then the rest of the form handler.
internship_feed_submit_load(s, lo) ==
    /\ run[s].pc = "save_load"
    /\ session_state' = [session_state EXCEPT
                            ![s] = AfterSaveReview(load_data(@, lo))]
    /\ run' = [run EXCEPT ![s].pc = "rerun", ![s].error = (lo # "ok"),
                          ![s].success = TRUE]
    /\ UNCHANGED <<userDoc, reviews, appDocs, query_params, last_upvote>>
    /\ Fault(lo # "ok")

\* "Submit Review" of the feed's form as typed: review_form shows the errors
\* and returns nothing, or returns the draft the form handler saves.
review_form_submit(s, ok) ==
    LET r == review_form(session_state[s].widgets.feed)
    IN IF r.errors = <<>>
       THEN internship_feed_submit(s, r.draft, ok)
       ELSE /\ ok
            /\ Idle(s)
            /\ run[s].screen = "Feed"
            /\ session_state[s].show_form
            /\ \E sel \in SidebarOptions :
                 LET b == script_top(s, sel, "ok")
                 IN IF b.rn.screen # "Feed"
                    THEN Commit(s, b.ss, b.rn)
                    ELSE Commit(s, Cleared(b.ss), [b.rn EXCEPT !.errors = r.errors,
                                                               !.error = TRUE,
                                                               !.handler = "review_form"])
            /\ UNCHANGED <<userDoc, reviews, appDocs, query_params, last_upvote,
                           faults>>

ToggleFields == {"upvoters", "bookmarkers"}

\* Variant: the array computed from the cached review is written back whole.
ToggleUpdate_overwrites(doc, cached, field, u) ==
    IF field = "upvoters"
    THEN [doc EXCEPT !.upvoters = IF u \in RangeOf(cached.upvoters)
                                  THEN SelectSeq(cached.upvoters, LAMBDA x : x # u)
                                  ELSE Append(cached.upvoters, u)]
    ELSE [doc EXCEPT !.bookmarkers = IF u \in RangeOf(cached.bookmarkers)
                                     THEN SelectSeq(cached.bookmarkers, LAMBDA x : x # u)
                                     ELSE Append(cached.bookmarkers, u)]

\* The store update of one button of a listed review: ArrayRemove when the
\* cached review holds the user in the field, ArrayUnion otherwise.
ToggleUpdate(doc, cached, field, u) ==
    IF field = "upvoters"
    THEN [doc EXCEPT !.upvoters = IF u \in RangeOf(cached.upvoters)
                                  THEN ArrayRemove(@, u) ELSE ArrayUnion(@, u)]
    ELSE [doc EXCEPT !.bookmarkers = IF u \in RangeOf(cached.bookmarkers)
                                     THEN ArrayRemove(@, u) ELSE ArrayUnion(@, u)]

\* An upvote or bookmark button of listed review i clicked: the run up to and
\* including review_ref.update.  A failed update is not caught: the run ends
\* with the exception shown.
internship_feed_toggle(s, i, field, ok) ==
    /\ Idle(s)
    /\ run[s].screen = "Feed"
    /\ i \in ShownReviews(session_state[s])
    /\ \E sel \in SidebarOptions :
         LET b == script_top(s, sel, "ok")
             cached == b.ss.reviews[i]
         IN IF b.rn.screen # "Feed"
            THEN Commit(s, b.ss, b.rn) /\ UNCHANGED <<reviews, last_upvote>>
            ELSE IF ~ok
            THEN /\ Commit(s, b.ss, [b.rn EXCEPT !.error = TRUE,
                                                  !.handler = "toggle"])
                 /\ UNCHANGED <<reviews, last_upvote>>
            ELSE /\ reviews' = [reviews EXCEPT ![cached.id] =
                                   ToggleUpdate(@, cached, field, b.ss.firebase_user)]
                 /\ Commit(s, b.ss, [b.rn EXCEPT !.pc = "toggle_load",
                                                  !.handler = "toggle",
                                                  !.pending_id = cached.id,
                                                  !.pending_field = field])
                 /\ last_upvote' =
                      IF field = "upvoters"
                      THEN [user |-> b.ss.firebase_user, id |-> cached.id,
                            before |-> reviews[cached.id].upvoters]
                      ELSE HistAfterWrite(b.ss.firebase_user, reviews')
    /\ UNCHANGED <<userDoc, appDocs, query_params>>
    /\ Fault(~ok)

\* load_data() after the update; st.rerun() follows.
internship_feed_toggle_load(s, lo) ==
    /\ run[s].pc = "toggle_load"
    /\ session_state' = [session_state EXCEPT ![s] = load_data(@, lo)]
    /\ run' = [run EXCEPT ![s].pc = "rerun", ![s].error = (lo # "ok")]
    /\ UNCHANGED <<userDoc, reviews, appDocs, query_params, last_upvote>>
    /\ Fault(lo # "ok")

----------------------------------------------------------------------------
Init ==
    /\ userDoc = [u \in Users |-> NoDoc]
    /\ reviews = <<>>
    /\ appDocs = [u \in Users |-> <<>>]
    /\ session_state = [s \in Sessions |-> InitSession]
    /\ query_params = NoParam
    /\ run = [s \in Sessions |-> InitRun]
    /\ last_upvote = NoToggle
    /\ faults = 0

Next ==
    \E s \in Sessions :
        \/ \E u \in Accounts(s) : SignIn(s, u)
        \/ Rerun(s)
        \/ Logout(s)
        \/ \E n \in Names, p \in BOOLEAN : complete_profile_submit(s, n, p)
        \/ \E ok \in BOOLEAN : complete_profile_set(s, ok)
        \/ complete_profile_next(s)
        \/ \E d \in OnboardingDrafts : onboarding_process_submit(s, d)
        \/ \E i \in {0, 1}, ok \in BOOLEAN : onboarding_process_add(s, i, ok)
        \/ \E lo \in LoadOutcomes : onboarding_process_load(s, lo)
        \/ \E ok \in BOOLEAN : onboarding_process_flag(s, ok)
        \/ onboarding_process_previous(s)

Spec == Init /\ [][Next]_vars

----------------------------------------------------------------------------
\* The feed: both users have completed their profile and onboarding (two
\* reviews each), every browser session is new.

OnboardedDoc(n) ==
    [exists |-> TRUE, full_name |-> n, profile_completed |-> TRUE,
     onboarding_complete |-> TRUE]

OnboardedReview(u, n, i) ==
    WithId(OnboardingReview([firebase_user |-> u, user_profile |-> n],
                            [content |-> "a", postAs |-> UseFullName], i), i)

InitFeed ==
    /\ userDoc = [u \in Users |-> OnboardedDoc("Ann")]
    /\ reviews = << OnboardedReview("u1", "Ann", 1), OnboardedReview("u1", "Ann", 2),
                    OnboardedReview("u2", "Ann", 3), OnboardedReview("u2", "Ann", 4) >>
    /\ appDocs = [u \in Users |-> <<>>]
    /\ session_state = [s \in Sessions |-> InitSession]
    /\ query_params = NoParam
    /\ run = [s \in Sessions |-> InitRun]
    /\ last_upvote = NoToggle
    /\ faults = 0

NextFeed ==
    \E s \in Sessions :
        \/ \E u \in Accounts(s) : SignIn(s, u)
        \/ Rerun(s)
        \/ \E i \in FeedTargets, f \in ToggleFields, ok \in BOOLEAN :
              internship_feed_toggle(s, i, f, ok)
        \/ \E lo \in LoadOutcomes : internship_feed_toggle_load(s, lo)

SpecFeed == InitFeed /\ [][NextFeed]_vars

----------------------------------------------------------------------------
\* The gate as a function of its inputs: every combination of the persisted
\* flags, show_form, the session's page, the wizard cursor and the query
\* parameter, for a signed-in session; the action is one script run.

GateDocs ==
    {NoDoc} \cup [exists : {TRUE}, full_name : {"Ann"},
                  profile_completed : BOOLEAN, onboarding_complete : BOOLEAN]

InitGate ==
    /\ userDoc \in [Users -> GateDocs]
    /\ userDoc["u2"] = NoDoc
    /\ reviews = <<>>
    /\ appDocs = [u \in Users |-> <<>>]
    /\ \E pg \in {PageProfile, PageFeed, PageOnboarding}, sf \in BOOLEAN, c \in {0, 1} :
         session_state = [s \in Sessions |->
            IF s = "s1"
            THEN [InitSession EXCEPT !.firebase_user = "u1", !.data_loaded = TRUE,
                                     !.page = pg, !.show_form = sf,
                                     !.current_review_step = c]
            ELSE InitSession]
    /\ query_params \in {NoParam, PageProfile, PageFeed, PageOnboarding}
    /\ run = [s \in Sessions |-> InitRun]
    /\ last_upvote = NoToggle
    /\ faults = 0

NextGate == \E s \in Sessions : Rerun(s)

SpecGate == InitGate /\ [][NextGate]_vars

\* The same initial states, with the onboarding wizard's handlers.
NextWizard ==
    \E s \in Sessions :
        \/ Rerun(s)
        \/ \E d \in OnboardingDrafts : onboarding_process_submit(s, d)
        \/ \E i \in {0, 1}, ok \in BOOLEAN : onboarding_process_add(s, i, ok)
        \/ \E lo \in LoadOutcomes : onboarding_process_load(s, lo)
        \/ \E ok \in BOOLEAN : onboarding_process_flag(s, ok)
        \/ onboarding_process_previous(s)

SpecWizard == InitGate /\ [][NextWizard]_vars

----------------------------------------------------------------------------
\* Editing a review while other sessions toggle its buttons.

EditTargets == {1}
EditDrafts == [content : {"b"}, postAs : {Anonymous}]

NextEdit ==
    \E s \in Sessions :
        \/ \E u \in Accounts(s) : SignIn(s, u)
        \/ Rerun(s)
        \/ \E i \in EditTargets : user_profile_edit(s, i)
        \/ \E d \in EditDrafts, ok \in BOOLEAN : internship_feed_submit(s, d, ok)
        \/ \E lo \in LoadOutcomes : internship_feed_submit_load(s, lo)
        \/ \E i \in FeedTargets : internship_feed_toggle(s, i, "upvoters", TRUE)
        \/ internship_feed_toggle_load(s, "ok")

SpecEdit == InitFeed /\ [][NextEdit]_vars

----------------------------------------------------------------------------
\* The applications tracker used from two sessions.

AppTables == UNION {[1..n -> AppRows] : n \in 0..MaxApps}

NextApps ==
    \E s \in Sessions :
        \/ SignIn(s, "u1")
        \/ Rerun(s)
        \/ \E r \in AppRows : user_profile_add_application(s, r)
        \/ \E e \in AppTables : user_profile_data_editor(s, e)
        \/ \E ok \in BOOLEAN : save_applications_stream(s, ok)
        \/ \E ok \in BOOLEAN : save_applications_delete(s, ok)
        \/ \E ok \in BOOLEAN : save_applications_add(s, ok)

SpecApps == InitFeed /\ [][NextApps]_vars

----------------------------------------------------------------------------
\* The review forms as typed: a session of u1 is at the first or the second
\* step of the wizard, or has the feed's form open for a new review, and the
\* form shown holds any of Forms.

Texts == {<<>>, <<" ">>, <<"t">>}
FieldStipends == {<<>>, <<"a">>, <<"1", "-", "2">>}
StipendAlphabet == {"1", "-", " ", "a", "sup2"}
StipendStrings == UNION {[1..n -> StipendAlphabet] : n \in 0..MaxStipendLen}

ValidForm ==
    [BlankForm EXCEPT !.interview_questions = <<"t">>,
                      !.mode_interview = <<"In-Person">>,
                      !.assessments = <<"t">>]

Forms ==
    {f \in [company : {Unilever, Other}, custom_company : Texts,
            interview_questions : Texts,
            mode_interview : {<<>>, <<"In-Person">>},
            assessments : Texts, stipend : FieldStipends,
            post_option : {UseFullName}] :
        f.company = Unilever => f.custom_company = <<>>}
    \cup {[ValidForm EXCEPT !.stipend = x] : x \in StipendStrings}

ProfileDoc(n) ==
    [exists |-> TRUE, full_name |-> n, profile_completed |-> TRUE,
     onboarding_complete |-> FALSE]

FormReview(u, n, i) ==
    WithId(OnboardingReview([firebase_user |-> u, user_profile |-> n],
                            FormDraft(ValidForm), i), i)

SignedIn(u) == [InitSession EXCEPT !.firebase_user = u, !.data_loaded = TRUE]

InitForm ==
    /\ appDocs = [u \in Users |-> <<>>]
    /\ query_params = NoParam
    /\ run = [s \in Sessions |-> InitRun]
    /\ last_upvote = NoToggle
    /\ faults = 0
    /\ \E f \in Forms, at \in {"step0", "step1", "feed"} :
         LET rs == IF at = "feed"
                   THEN <<FormReview("u1", "Ann", 1), FormReview("u1", "Ann", 2)>>
                   ELSE <<>>
             ss == CASE at = "step0" ->
                          [SignedIn("u1") EXCEPT
                              !.widgets.onboarding = <<f, BlankForm>>]
                     [] at = "step1" ->
                          [SignedIn("u1") EXCEPT
                              !.current_review_step = 1,
                              !.review_data = <<FormDraft(ValidForm), NoDraft>>,
                              !.widgets.onboarding = <<ValidForm, f>>]
                     [] OTHER ->
                          [SignedIn("u1") EXCEPT
                              !.reviews = rs,
                              !.show_form = TRUE,
                              !.page = PageFeed,
                              !.widgets.feed = f]
         IN /\ userDoc = [u \in Users |->
                            IF u # "u1" THEN NoDoc
                            ELSE IF at = "feed" THEN OnboardedDoc("Ann")
                            ELSE ProfileDoc("Ann")]
            /\ reviews = rs
            /\ session_state = [s \in Sessions |->
                                   IF s = "s1" THEN ss ELSE InitSession]

NextForm ==
    \E s \in Sessions :
        \/ Rerun(s)
        \/ get_review_form_submit(s)
        \/ \E i \in {0, 1}, ok \in BOOLEAN : onboarding_process_add(s, i, ok)
        \/ \E lo \in LoadOutcomes : onboarding_process_load(s, lo)
        \/ \E ok \in BOOLEAN : onboarding_process_flag(s, ok)
        \/ onboarding_process_previous(s)
        \/ \E ok \in BOOLEAN : review_form_submit(s, ok)
        \/ \E lo \in LoadOutcomes : internship_feed_submit_load(s, lo)

SpecForm == InitForm /\ [][NextForm]_vars

\* The login screen of both sessions, over a store of onboarded users.
NextAuth ==
    \E s \in Sessions :
        \/ Rerun(s)
        \/ Logout(s)
        \/ \E e \in Emails, ok \in BOOLEAN : login_form_submit(s, e, ok)
        \/ forgot_button(s)
        \/ \E e \in Emails, ok \in BOOLEAN : forgot_form_submit(s, e, ok)
        \/ \E e \in Emails, ok \in BOOLEAN : register_form_submit(s, e, ok)

SpecAuth == InitFeed /\ [][NextAuth]_vars

\* The dashboard of a signed-in user over every applications table of up to
\* MaxKpiRows rows.
StatusValues == {"Applied", "Offer Received", "Rejected", "rejected", NaN}

KpiTables ==
    UNION {[columns : {{"Company Name", "Status"}}, rows : [1..n -> StatusValues]] :
              n \in 0..MaxKpiRows}
    \cup {[columns |-> {"Company Name"}, rows |-> [i \in 1..n |-> NaN]] :
              n \in 1..MaxKpiRows}
    \cup {[columns |-> {}, rows |-> <<>>]}

\* user_profile reads the figures (line 627).
user_profile_kpis(s) ==
    /\ Idle(s)
    /\ session_state[s].firebase_user # None
    /\ run[s].handler = "none"
    /\ Commit(s, session_state[s],
              [run[s] EXCEPT !.handler = "calculate_kpis",
                             !.kpis = calculate_kpis(session_state[s].applications)])
    /\ UNCHANGED <<userDoc, reviews, appDocs, query_params, last_upvote, faults>>

InitKpi ==
    /\ userDoc = [u \in Users |-> OnboardedDoc("Ann")]
    /\ reviews = <<>>
    /\ appDocs = [u \in Users |-> <<>>]
    /\ query_params = NoParam
    /\ run = [s \in Sessions |-> InitRun]
    /\ last_upvote = NoToggle
    /\ faults = 0
    /\ \E df \in KpiTables :
         session_state = [s \in Sessions |->
             IF s = "s1" THEN [SignedIn("u1") EXCEPT !.applications = df]
             ELSE InitSession]

NextKpi == \E s \in Sessions : user_profile_kpis(s)

SpecKpi == InitKpi /\ [][NextKpi]_vars

\* The feed page over bounded lists of reviews and filter settings.
Company_Ab == <<"A", "b">>
Company_ab == <<"a", "b">>
FilterStipends ==
    { <<"2", "0", "0", "0", "0", "-", "2", "5", "0", "0", "0">>,
      <<"4", "0", "0", "0", "0", "-", "8", "0", "0", "0", "0">>,
      <<"3", "0", "0", "0", "0", "-", "1", "0", "0", "0", "0", "0">>,
      <<" ", "4", "0", "0", "0", "0", " ", "-", " ", "8", "0", "0", "0", "0", " ">>,
      <<"a", "b", "c">>,
      <<"5", "-">>,
      <<"sup2", "-", "1">>,
      NotSpecified, <<>>, Missing }

FeedReview(i, company, industry, program, stipend, upvoters) ==
    [ id |-> i,
      content |-> [Company |-> company, Industry |-> industry,
                   program_type |-> program, StipendRange |-> stipend],
      upvoters |-> upvoters ]

FixedReview(i, upvoters) ==
    FeedReview(i, Company_ab, "Finance", "MT Program",
               <<"4", "0", "0", "0", "0", "-", "8", "0", "0", "0", "0">>, upvoters)

FilterLists ==
    LET firsts == {FeedReview(1, c, ind, "Internship", st, <<>>) :
                      c \in {Company_Ab, Company_ab}, ind \in {"Tech", None},
                      st \in FilterStipends}
    IN {<<r>> : r \in firsts} \cup {<<r, FixedReview(2, <<>>)>> : r \in firsts}

UpvoterLists == {<<>>, <<"u1">>, <<"u1", "u2">>}

RankLists ==
    UNION {{[i \in 1..n |-> FixedReview(i, ups[i])] : ups \in [1..n -> UpvoterLists]} :
              n \in 0..MaxRankLen}

StipendSliders ==
    {<<0, 30000>>, <<0, SliderDefaultUpper>>, <<0, 250000>>, <<30000, 30000>>,
     <<30000, SliderDefaultUpper>>, <<SliderDefaultUpper, 250000>>}

FilterSettings(rs) ==
    [company : {All} \cup {GetCompany(rs[i]) : i \in 1..Len(rs)},
     industry : {"All", "Tech", "Finance"},
     stipend_range : StipendSliders,
     program : {"All", "Internship"}]

\* The run of the feed page with or without "Search" pressed.
internship_feed_filter(s, search_clicked) ==
    /\ Idle(s)
    /\ run[s].screen = "Feed"
    /\ \E sel \in SidebarOptions :
         LET b == script_top(s, sel, "ok")
             c == IF search_clicked THEN b.ss.widgets.filter ELSE NoSearchFilter
             filtered_reviews == FilterReviews(b.ss.reviews, c)
         IN IF b.rn.screen # "Feed"
            THEN Commit(s, b.ss, b.rn)
            ELSE Commit(s, b.ss, [b.rn EXCEPT !.handler = "filter",
                                              !.criteria = c,
                                              !.filtered = filtered_reviews,
                                              !.top = TopReviews(filtered_reviews)])
    /\ UNCHANGED <<userDoc, reviews, appDocs, query_params, last_upvote, faults>>

InitFilter ==
    /\ userDoc = [u \in Users |-> OnboardedDoc("Ann")]
    /\ appDocs = [u \in Users |-> <<>>]
    /\ query_params = NoParam
    /\ run = [s \in Sessions |-> InitRun]
    /\ last_upvote = NoToggle
    /\ faults = 0
    /\ \/ reviews \in FilterLists
       \/ reviews \in RankLists
    /\ \E c \in IF reviews \in FilterLists THEN FilterSettings(reviews)
                 ELSE {DefaultFilter} :
         session_state = [s \in Sessions |->
             IF s = "s1"
             THEN [SignedIn("u1") EXCEPT !.reviews = reviews, !.page = PageFeed,
                                         !.widgets.filter = c]
             ELSE InitSession]

NextFilter ==
    \E s \in Sessions :
        \/ Rerun(s)
        \/ \E search_clicked \in BOOLEAN : internship_feed_filter(s, search_clicked)

SpecFilter == InitFilter /\ [][NextFilter]_vars

----------------------------------------------------------------------------
\* Properties

AuthoredBy(u) == {i \in 1..Len(reviews) : reviews[i].user_id = u}

FlagTrue(u) == userDoc[u].exists /\ userDoc[u].onboarding_complete

\* Session s takes a step.
Steps(s) == run'[s] # run[s] \/ session_state'[s] # session_state[s]

\* C1: onboarding_complete is false whenever fewer than two reviews authored
\* by the user exist, and at the step that writes it true the store holds
\* exactly two reviews authored by the user.
C1_FlagTrueAtExactlyTwoReviews ==
    /\ [](\A u \in Users : Cardinality(AuthoredBy(u)) < 2 => ~FlagTrue(u))
    /\ [][\A u \in Users : (~FlagTrue(u) /\ FlagTrue(u)') =>
                              Cardinality(AuthoredBy(u))' = 2]_vars

\* C2: a finished Step1 submission has either added both reviews and set the
\* flag, or has left none of its review documents in the store, the flag
\* false, an error reported and the cursor at 1.
C2_CompleteIsAllOrNothing ==
    \A s \in Sessions :
        (run[s].handler = "onboarding_step1" /\ run[s].pc = "idle") =>
            \/ /\ Cardinality(run[s].attempt) = 2
               /\ FlagTrue(UserOf(s))
            \/ /\ run[s].attempt = {}
               /\ ~FlagTrue(UserOf(s))
               /\ run[s].error
               /\ session_state[s].current_review_step = 1

\* C3: when the write of the second review document fails, the attempt ends
\* there with an error: the cursor stays 1 and the flag is not written.
C3_SecondWriteFailureKeepsStep1 ==
    [][\A s \in Sessions :
          (run[s].pc = "onb_add1" /\ run'[s] # run[s] /\ reviews' = reviews) =>
              /\ run'[s].pc = "idle"
              /\ run'[s].error
              /\ ~run'[s].success
              /\ userDoc' = userDoc
              /\ session_state'[s].current_review_step = 1
              /\ session_state'[s].reviews_submitted = session_state[s].reviews_submitted]_vars

C3_Witness ==
    \E s \in Sessions :
        /\ run[s].handler = "onboarding_step1"
        /\ run[s].pc = "idle"
        /\ Cardinality(run[s].attempt) = 1
        /\ run[s].error
        /\ session_state[s].current_review_step = 1
        /\ ~FlagTrue(UserOf(s))

\* C4: a run that reads profile_completed and onboarding_complete both true
\* renders the user-profile page or the feed page, never the onboarding wizard.
C4_OnboardedNeverSeesWizard ==
    \A s \in Sessions :
        (UserOf(s) # None /\ run[s].profile_completed /\ run[s].onboarding_complete) =>
            run[s].screen \in {"UserProfile", "Feed"}

C4_Witness ==
    \E s \in Sessions :
        /\ session_state[s].reviews_submitted = 2
        /\ session_state[s].current_review_step = 1
        /\ Len(reviews) = 2
        /\ run[s].profile_completed /\ run[s].onboarding_complete
        /\ run[s].screen = "UserProfile"

\* The precedence the specification states for the gate.
Precedence(profileCompleted, onboardingComplete, show_form, selected) ==
    IF ~profileCompleted THEN "ProfileForm"
    ELSE IF ~onboardingComplete THEN "Onboarding"
    ELSE IF show_form THEN "Feed"
    ELSE IF selected = PageProfile THEN "UserProfile"
    ELSE "Feed"

\* C5: one run of a signed-in session renders exactly one of the four pages,
\* the one the precedence gives for the flags it reads, show_form and the page
\* selected in the sidebar (the page the run stores when nothing forces one).
C5_GatePrecedence ==
    [][\A s \in Sessions :
          (Steps(s) /\ UserOf(s) # None) =>
              LET f == ReadFlags(UserOf(s))
                  forced == \/ ~f.profile_completed
                            \/ ~f.onboarding_complete
                            \/ session_state[s].show_form
              IN /\ run'[s].screen \in {"ProfileForm", "Onboarding", "UserProfile", "Feed"}
                 /\ \E sel \in SidebarOptions :
                      /\ run'[s].screen =
                            Precedence(f.profile_completed, f.onboarding_complete,
                                       session_state[s].show_form, sel)
                      /\ ~forced => session_state'[s].page = sel]_vars

C5_Witness ==
    /\ UserOf("s1") # None
    /\ userDoc["u1"].exists
    /\ userDoc["u1"].profile_completed /\ userDoc["u1"].onboarding_complete
    /\ session_state["s1"].show_form
    /\ run["s1"].screen = "Feed"
    /\ run["s1"].profile_completed

Occurrences(arr, u) == Cardinality({k \in 1..Len(arr) : arr[k] = u})

\* C6: in every reachable state of the store each user identity occurs at most
\* once in a review's upvoters and at most once in its bookmarkers.
C6_IdentityAtMostOnce ==
    \A i \in 1..Len(reviews), u \in Users :
        /\ Occurrences(reviews[i].upvoters, u) <= 1
        /\ Occurrences(reviews[i].bookmarkers, u) <= 1

\* Two sessions of u1 have both written an upvote of review 1 from cached
\* copies that do not hold u1, and neither has reloaded yet.
C6_Witness ==
    /\ \A s \in Sessions :
          /\ UserOf(s) = "u1"
          /\ run[s].pc = "toggle_load"
          /\ run[s].pending_field = "upvoters"
          /\ run[s].pending_id = 1
          /\ "u1" \notin RangeOf(session_state[s].reviews[1].upvoters)
    /\ reviews[1].upvoters = <<"u1">>

\* The step in which session s writes a toggle to the store.
ToggleWrite(s) ==
    /\ run[s].pc = "idle"
    /\ run'[s].pc = "toggle_load"

\* C7: an upvote toggle that follows an upvote toggle of the same review by
\* the same identity, with no write by another identity in between, leaves the
\* stored upvoter set as it was before the first of the two.
C7_DoubleToggleRestores ==
    [][\A s \in Sessions :
          (/\ ToggleWrite(s)
           /\ run'[s].pending_field = "upvoters"
           /\ last_upvote.user = UserOf(s)
           /\ last_upvote.id = run'[s].pending_id) =>
              RangeOf(reviews'[last_upvote.id].upvoters) = RangeOf(last_upvote.before)]_vars

\* C8: a toggle written by a session changes only the acting user's
\* membership in the toggled set of that review, to the opposite of what the
\* session's cached copy shows; the other users' memberships, the other set,
\* the authored fields and the other reviews stay as stored.
C8_ToggleChangesOnlyActor ==
    [][\A s \in Sessions :
          ToggleWrite(s) =>
              LET id == run'[s].pending_id
                  f == run'[s].pending_field
                  u == UserOf(s)
                  old == reviews[id]
                  new == reviews'[id]
                  cached == session_state'[s].reviews[id]
                  oldSet == IF f = "upvoters" THEN old.upvoters ELSE old.bookmarkers
                  newSet == IF f = "upvoters" THEN new.upvoters ELSE new.bookmarkers
                  seen == IF f = "upvoters" THEN cached.upvoters ELSE cached.bookmarkers
              IN /\ \A j \in 1..Len(reviews) : j # id => reviews'[j] = reviews[j]
                 /\ Len(reviews') = Len(reviews)
                 /\ new.user_id = old.user_id
                 /\ new.reviewer_name = old.reviewer_name
                 /\ new.timestamp = old.timestamp
                 /\ new.content = old.content
                 /\ new.postAs = old.postAs
                 /\ f = "upvoters" => new.bookmarkers = old.bookmarkers
                 /\ f = "bookmarkers" => new.upvoters = old.upvoters
                 /\ \A v \in Users \ {u} :
                       (v \in RangeOf(newSet)) = (v \in RangeOf(oldSet))
                 /\ (u \in RangeOf(newSet)) = (u \notin RangeOf(seen))]_vars

\* Sessions of u1 and u2 have both written an upvote of review 1 before
\* either reloaded, and the store holds both.
C8_Witness ==
    /\ UserOf("s1") = "u1" /\ UserOf("s2") = "u2"
    /\ \A s \in Sessions :
          /\ run[s].pc = "toggle_load"
          /\ run[s].pending_field = "upvoters"
          /\ run[s].pending_id = 1
          /\ session_state[s].reviews[1].upvoters = <<>>
    /\ RangeOf(reviews[1].upvoters) = {"u1", "u2"}

\* The step in which session s writes an edit to the store.
EditWrite(s) ==
    /\ run[s].pc = "idle"
    /\ run'[s].pc = "save_load"
    /\ session_state[s].review_to_edit # NoReview

\* C9: the edit write replaces the authored form fields of the edited review
\* with the submitted ones and leaves its user_id, timestamp, upvoters and
\* bookmarkers, and every other review, as stored.
C9_EditKeepsSocialState ==
    [][\A s \in Sessions :
          EditWrite(s) =>
              LET id == session_state[s].review_to_edit.id
                  old == reviews[id]
                  new == reviews'[id]
              IN /\ Len(reviews') = Len(reviews)
                 /\ \A j \in 1..Len(reviews) : j # id => reviews'[j] = reviews[j]
                 /\ new.content = run'[s].pending_draft.content
                 /\ new.postAs = run'[s].pending_draft.postAs
                 /\ new.user_id = old.user_id
                 /\ new.timestamp = old.timestamp
                 /\ new.upvoters = old.upvoters
                 /\ new.bookmarkers = old.bookmarkers]_vars

\* u1 has written an edit of review 1 from a cached copy without upvoters,
\* after u2 upvoted the review; the store has the new content and the upvote.
C9_Witness ==
    \E s \in Sessions :
        /\ UserOf(s) = "u1"
        /\ run[s].pc = "save_load"
        /\ session_state[s].review_to_edit # NoReview
        /\ session_state[s].review_to_edit.id = 1
        /\ session_state[s].review_to_edit.upvoters = <<>>
        /\ reviews[1].content = "b"
        /\ reviews[1].upvoters = <<"u2">>

\* save_applications of session s has returned without an error.
SaveFinished(s) ==
    /\ run[s].handler \in {"add_application", "data_editor"}
    /\ run[s].pc \in {"idle", "rerun"}
    /\ ~run[s].error

Count(seq, r) == Cardinality({k \in 1..Len(seq) : seq[k] = r})

SameRows(a, b) == \A r \in AppRows : Count(a, r) = Count(b, r)

\* C10: once the save_applications calls of two sessions of one user have
\* both returned, the user's stored applications are exactly the rows of one
\* session's table or exactly the rows of the other's.
C10_LastWriterWins ==
    \A s, t \in Sessions :
        (/\ s # t
         /\ UserOf(s) # None
         /\ UserOf(s) = UserOf(t)
         /\ SaveFinished(s)
         /\ SaveFinished(t)) =>
            LET stored == RowsOf(StreamApps(UserOf(s)))
            IN \/ SameRows(stored, session_state[s].applications)
               \/ SameRows(stored, session_state[t].applications)

\* The step in which the store call of a feed action of session s fails.
FeedCallFails(s) ==
    /\ run[s].pc = "idle"
    /\ run'[s].handler \in {"save_review", "toggle"}
    /\ faults' = faults + 1

\* C11: when the store call of a feed action (the add or update of
\* save_review, the update of a toggle) fails, an error is shown, no success
\* is reported, and show_form, review_to_edit and the cached reviews of the
\* session keep their values.
C11_FeedFailureLeavesState ==
    [][\A s \in Sessions :
          FeedCallFails(s) =>
              /\ run'[s].error
              /\ ~run'[s].success
              /\ session_state'[s].show_form = session_state[s].show_form
              /\ session_state'[s].review_to_edit = session_state[s].review_to_edit
              /\ session_state'[s].reviews = session_state[s].reviews]_vars

\* A text with nothing but spaces in it.
Blank(text) == \A i \in 1..Len(text) : text[i] = " "

\* A run of decimal digits with spaces around it.
IsNumber(text) ==
    \E a, b \in 1..Len(text) :
        /\ a <= b
        /\ \A i \in 1..Len(text) :
              IF a <= i /\ i <= b THEN text[i] \in DecimalChars ELSE text[i] = " "

\* The stipend rule: nothing, or two numbers with one "-" between them.
StipendWellFormed(text) ==
    \/ text = <<>>
    \/ \E k \in 1..Len(text) :
          /\ text[k] = "-"
          /\ \A i \in 1..Len(text) : text[i] = "-" => i = k
          /\ IsNumber(SubSeq(text, 1, k - 1))
          /\ IsNumber(SubSeq(text, k + 1, Len(text)))

\* The rules a form violates.  The company is resolved when it is one of the
\* catalogue or some custom text was typed; a required text is empty when it
\* holds nothing but spaces; a stipend is valid when validate_stipend accepts it.
ViolatedRules(form) ==
    {r \in {"company", "questions", "mode", "assessment", "stipend"} :
        CASE r = "company" -> form.company = Other /\ form.custom_company = <<>>
          [] r = "questions" -> Blank(form.interview_questions)
          [] r = "mode" -> form.mode_interview = <<>>
          [] r = "assessment" -> Blank(form.assessments)
          [] OTHER -> ~validate_stipend(form.stipend)}

RuleMessage(r) ==
    CASE r = "company" -> "Company name required"
      [] r = "questions" -> "Interview Questions field is required"
      [] r = "mode" -> "At least one Mode of Interview must be selected"
      [] r = "assessment" -> "Gamified Assessment feedback is required"
      [] OTHER -> "Invalid stipend format (use 'min-max')"

\* The step in which session s submits a review form, and the form submitted.
FormSubmit(s) ==
    /\ run[s].pc = "idle"
    /\ Steps(s)
    /\ run'[s].handler \in {"get_review_form", "onboarding_step0",
                            "onboarding_step1", "review_form", "save_review"}

SubmittedForm(s) ==
    IF run'[s].handler \in {"review_form", "save_review"}
    THEN session_state[s].widgets.feed
    ELSE session_state[s].widgets.onboarding[session_state[s].current_review_step + 1]

\* C12: a submitted review form that violates a rule is rejected in full (one
\* error per violated rule, no draft returned, no store call, cursor and
\* stored drafts unchanged); one that violates none returns its draft.
C12_InvalidFormRejectedInFull ==
    [][\A s \in Sessions :
          FormSubmit(s) =>
              LET form == SubmittedForm(s)
                  V == ViolatedRules(form)
              IN IF V # {}
                 THEN /\ run'[s].handler \in {"get_review_form", "review_form"}
                      /\ Len(run'[s].errors) = Cardinality(V)
                      /\ RangeOf(run'[s].errors) = {RuleMessage(r) : r \in V}
                      /\ run'[s].pc = "idle"
                      /\ faults' = faults
                      /\ <<userDoc, reviews, appDocs>>' = <<userDoc, reviews, appDocs>>
                      /\ session_state'[s].current_review_step =
                            session_state[s].current_review_step
                      /\ session_state'[s].review_data = session_state[s].review_data
                 ELSE /\ run'[s].handler \in {"onboarding_step0", "onboarding_step1",
                                             "save_review"}
                      /\ run'[s].errors = <<>>]_vars

\* A form violating three rules was submitted on the second wizard step and
\* rejected: three errors are shown, the cursor and the first draft are kept.
C12_Witness ==
    \E s \in Sessions :
        /\ run[s].handler = "get_review_form"
        /\ Len(run[s].errors) = 3
        /\ session_state[s].current_review_step = 1
        /\ session_state[s].review_data[1] # NoDraft
        /\ reviews = <<>>

\* The address ends with one of the two institutional domains.
HasIbaSuffix(email) ==
    \E prefix \in {SubSeq(email, 1, k) : k \in 0..Len(email)} :
        \/ email = prefix \o <<"@", "i", "b", "a", ".", "e", "d", "u", ".", "p", "k">>
        \/ email = prefix \o <<"@", "k", "h", "i", ".", "i", "b", "a", ".", "e", "d", "u", ".", "p", "k">>

\* C13: a session becomes authenticated only in a sign-in whose address ends
\* in '@iba.edu.pk' or '@khi.iba.edu.pk'; for any other address the identity
\* provider is not called for sign-in, registration or password reset; and
\* is_iba_user is true exactly for the addresses with one of those suffixes.
C13_OnlyIbaAddressesReachProvider ==
    [][\A s \in Sessions :
          /\ (session_state[s].firebase_user = None
              /\ session_state'[s].firebase_user # None) =>
                 /\ run'[s].handler = "login_form"
                 /\ run'[s].provider_call = "signInWithPassword"
                 /\ HasIbaSuffix(run'[s].email)
          /\ (Steps(s) /\ run'[s].handler \in {"login_form", "forgot_form",
                                               "register_form"}) =>
                 /\ is_iba_user(run'[s].email) = HasIbaSuffix(run'[s].email)
                 /\ ~HasIbaSuffix(run'[s].email) =>
                       /\ run'[s].provider_call = None
                       /\ run'[s].error
                       /\ session_state'[s].firebase_user = None]_vars

\* An address holding the domain but not ending with it was refused on the
\* login form while the other session signed in with an institutional one.
C13_Witness ==
    \E s, t \in Sessions :
        /\ run[s].handler = "login_form"
        /\ run[s].email = DomainInside
        /\ run[s].error
        /\ session_state[s].firebase_user = None
        /\ run[t].handler = "login_form"
        /\ run[t].email = KhiEmail
        /\ session_state[t].firebase_user = "u2"

\* The number of rows of a column whose value is one of vals.
RECURSIVE CountIn(_, _)
CountIn(rows, vals) ==
    IF rows = <<>> THEN 0
    ELSE (IF Head(rows) \in vals THEN 1 ELSE 0) + CountIn(Tail(rows), vals)

\* C14: the dashboard figures are total = number of rows, rejected = rows with
\* status 'Rejected', in progress = total minus the rows with status 'Offer
\* Received' or 'Rejected'; an empty table gives 0, 0, 0; a table without a
\* status column gives total, 0, total; rejected + in progress <= total.
C14_KpisCountRows ==
    \A s \in Sessions :
        run[s].handler = "calculate_kpis" =>
            LET df == session_state[s].applications
                k == run[s].kpis
            IN /\ k.total = Len(df.rows)
               /\ k.rejected = CountIn(df.rows, {"Rejected"})
               /\ k.in_progress =
                     k.total - CountIn(df.rows, {"Offer Received", "Rejected"})
               /\ Len(df.rows) = 0 =>
                     k = [total |-> 0, rejected |-> 0, in_progress |-> 0]
               /\ "Status" \notin df.columns =>
                     k = [total |-> Len(df.rows), rejected |-> 0,
                          in_progress |-> Len(df.rows)]
               /\ k.rejected + k.in_progress <= k.total

\* The figures of a table holding an offer, a rejection and an open
\* application were computed.
C14_Witness ==
    \E s \in Sessions :
        /\ run[s].handler = "calculate_kpis"
        /\ session_state[s].applications.rows = <<"Offer Received", "Rejected", "Applied">>
        /\ run[s].kpis = [total |-> 3, rejected |-> 1, in_progress |-> 1]

\* The two numbers of a stipend text made of two numbers with one "-".
RangeOfStipend(text) ==
    LET k == CHOOSE i \in 1..Len(text) : text[i] = "-"
    IN <<DecValue(Strip(SubSeq(text, 1, k - 1))),
         DecValue(Strip(SubSeq(text, k + 1, Len(text))))>>

SameIgnoringCase(a, b) ==
    /\ Len(a) = Len(b)
    /\ \A i \in 1..Len(a) :
          \/ a[i] = b[i]
          \/ {a[i], b[i]} \in {{"A", "a"}, {"B", "b"}}

Filtered(s, review) == review \in RangeOf(run[s].filtered)

\* C15: a review whose stipend holds two integers is in the filtered list
\* exactly when every criterion other than "All" matches it (the company
\* without regard to case but in full, industry and program type exactly) and
\* its minimum is at least lo and its maximum at most hi; with the range
\* 30000..100000 a stipend 20000-25000 is left out and 40000-80000 kept.
C15_FilterKeepsMatchingReviews ==
    \A s \in Sessions :
        run[s].handler = "filter" =>
            LET c == run[s].criteria
                rs == session_state[s].reviews
            IN \A i \in 1..Len(rs) :
                  LET text == rs[i].content.StipendRange
                  IN (text # Missing /\ text # <<>> /\ StipendWellFormed(text)) =>
                       LET range == RangeOfStipend(text)
                           criteria_match ==
                               /\ c.company = All
                                  \/ SameIgnoringCase(c.company, rs[i].content.Company)
                               /\ c.industry = "All"
                                  \/ c.industry = rs[i].content.Industry
                               /\ c.program = "All"
                                  \/ c.program = rs[i].content.program_type
                       IN /\ Filtered(s, rs[i]) <=>
                               /\ criteria_match
                               /\ range[1] >= c.stipend_range[1]
                               /\ range[2] <= c.stipend_range[2]
                          /\ (c.stipend_range = <<30000, 100000>> /\ criteria_match) =>
                               /\ range = <<20000, 25000>> => ~Filtered(s, rs[i])
                               /\ range = <<40000, 80000>> => Filtered(s, rs[i])

\* "Search" was pressed with the company of the second review, written in
\* another case than the first review's, and the range 30000..100000: the
\* first review, with stipend 40000-80000, is kept.
C15_Witness ==
    \E s \in Sessions :
        /\ run[s].handler = "filter"
        /\ run[s].criteria.company = Company_ab
        /\ run[s].criteria.stipend_range = <<30000, 100000>>
        /\ Len(session_state[s].reviews) = 2
        /\ session_state[s].reviews[1].content.Company = Company_Ab
        /\ session_state[s].reviews[1].content.StipendRange =
              <<" ", "4", "0", "0", "0", "0", " ", "-", " ", "8", "0", "0", "0", "0", " ">>
        /\ Filtered(s, session_state[s].reviews[1])

\* The stipend of a review is missing, empty, the sentinel, or no range.
NoUsableStipend(review) ==
    \/ review.content.StipendRange \in {Missing, <<>>, NotSpecified}
    \/ ~StipendWellFormed(review.content.StipendRange)

\* C16: under every stipend filter narrower than the full default range
\* (lo > 0 or hi below the default upper bound) every review whose stipend is
\* missing, empty, 'Not Specified' or not parsable is left out.
C16_NoStipendExcludedByNarrowFilter ==
    \A s \in Sessions :
        (/\ run[s].handler = "filter"
         /\ \/ run[s].criteria.stipend_range[1] > 0
            \/ run[s].criteria.stipend_range[2] < SliderDefaultUpper) =>
            \A i \in 1..Len(session_state[s].reviews) :
                NoUsableStipend(session_state[s].reviews[i]) =>
                    ~Filtered(s, session_state[s].reviews[i])

\* The position of a review in a list of reviews with different ids.
PositionIn(rs, review) == CHOOSE i \in 1..Len(rs) : rs[i] = review

\* C17: the Top Reviews list holds min(5, matched) of the matched reviews, in
\* non-increasing order of upvoter count, reviews with equal counts in their
\* original order, and no review left out has strictly more upvoters than
\* one of the list.
C17_TopReviewsRanked ==
    \A s \in Sessions :
        run[s].handler = "filter" =>
            LET top == run[s].top
                matched == run[s].filtered
            IN /\ Len(top) = IF Len(matched) < 5 THEN Len(matched) ELSE 5
               /\ \A i \in 1..Len(top) : top[i] \in RangeOf(matched)
               /\ \A i, j \in 1..Len(top) : i < j => top[i] # top[j]
               /\ \A i, j \in 1..Len(top) :
                     i < j =>
                        /\ Len(top[i].upvoters) >= Len(top[j].upvoters)
                        /\ Len(top[i].upvoters) = Len(top[j].upvoters) =>
                              PositionIn(matched, top[i]) < PositionIn(matched, top[j])
               /\ \A k \in 1..Len(matched) :
                     matched[k] \notin RangeOf(top) =>
                        \A i \in 1..Len(top) :
                           /\ Len(matched[k].upvoters) <= Len(top[i].upvoters)
                           /\ Len(matched[k].upvoters) = Len(top[i].upvoters) =>
                                 PositionIn(matched, top[i]) < k

\* Six reviews matched; the last has the most upvoters and heads the list,
\* two reviews with one upvoter each follow in their original order, and a
\* review without upvoters is left out.
C17_Witness ==
    \E s \in Sessions :
        /\ run[s].handler = "filter"
        /\ Len(run[s].filtered) = 6
        /\ Len(run[s].top) = 5
        /\ run[s].top[1].id = 6
        /\ Len(run[s].top[1].upvoters) = 2
        /\ Len(run[s].top[2].upvoters) = 1
        /\ Len(run[s].top[3].upvoters) = 1
        /\ run[s].top[2].id < run[s].top[3].id
        /\ \E k \in 1..6 : run[s].filtered[k] \notin RangeOf(run[s].top)

\* C18: validate_stipend accepts a text exactly when it is empty or splits on
\* "-" into exactly two parts, each of them, once trimmed, a non-empty run of
\* decimal digits; the two numbers are not compared.  Read on a submission:
\* the stipend error is absent exactly for such a text.
C18_StipendAcceptedIffTwoDecimalRuns ==
    [][\A s \in Sessions :
          FormSubmit(s) =>
              LET text == SubmittedForm(s).stipend
              IN /\ validate_stipend(text) <=> StipendWellFormed(text)
                 /\ RuleMessage("stipend") \notin RangeOf(run'[s].errors)
                       <=> StipendWellFormed(text)]_vars

Cursor(s) == session_state[s].current_review_step

\* C19: the wizard cursor is 0 or 1 in every reachable state; it goes back
\* only from 1 to 0, and that step leaves the first draft alone; it goes
\* forward only from 0 to 1; a valid submission at cursor 0 stores the first
\* draft and sets the cursor to 1, and no submission moves it above 1.
C19_CursorStaysInWizard ==
    /\ \A s \in Sessions : Cursor(s) \in {0, 1}
    /\ [][\A s \in Sessions :
             /\ Cursor(s)' \in {0, 1}
             /\ Cursor(s)' < Cursor(s) =>
                   /\ Cursor(s) = 1 /\ Cursor(s)' = 0
                   /\ session_state'[s].review_data = session_state[s].review_data
             /\ Cursor(s)' > Cursor(s) =>
                   /\ Cursor(s) = 0 /\ Cursor(s)' = 1
                   /\ run'[s].handler = "onboarding_step0"
             /\ (FormSubmit(s) /\ Cursor(s) = 0
                 /\ run'[s].handler \notin {"review_form", "save_review"}
                 /\ ViolatedRules(SubmittedForm(s)) = {}) =>
                   /\ Cursor(s)' = 1
                   /\ session_state'[s].review_data[1] = FormDraft(SubmittedForm(s))
             /\ (FormSubmit(s) /\ Cursor(s) = 1) => Cursor(s)' = 1]_vars

\* A first review with a stipend was submitted at cursor 0, and "Previous"
\* brought the cursor back from 1 to 0 with that draft still stored.
C19_Witness ==
    \E s \in Sessions :
        /\ Cursor(s) = 0
        /\ session_state[s].review_data[1] # NoDraft
        /\ session_state[s].review_data[1].content.StipendRange = <<"1", "-", "2">>
        /\ run[s].handler = "none"

\* C20: every stored review created by onboarding_process or save_review, in
\* whatever session of its author, carries as reviewer_name the full name of
\* the author's stored profile when it was posted with "Use my full name",
\* and "Anonymous" otherwise.
C20_ReviewerNameIsProfileName ==
    \A i \in 1..Len(reviews) :
        reviews[i].reviewer_name =
            IF reviews[i].postAs = UseFullName
            THEN userDoc[reviews[i].user_id].full_name
            ELSE Anonymous

\* C21: the stored onboarding_complete flag of a user is monotonic: once it
\* is true, no later store write of any session of that user makes it false,
\* however the profile saves and the onboarding completion interleave.
C21_OnboardingFlagMonotonic ==
    [][\A u \in Users :
          (userDoc[u].exists /\ userDoc[u].onboarding_complete) =>
              (userDoc'[u].exists /\ userDoc'[u].onboarding_complete)]_vars

\* C22: in every reachable state of the store a review whose stored "Post As"
\* is "Anonymous" has reviewer_name "Anonymous"; in particular, once its
\* author has edited it from "Use my full name" to "Anonymous", the stored
\* reviewer_name is no longer the author's full name.
C22_AnonymousReviewHidesName ==
    \A i \in 1..Len(reviews) :
        reviews[i].postAs = Anonymous => reviews[i].reviewer_name = Anonymous

====
